---- MODULE Spec2Model ----
(***************************************************************************)
(* The CHIP-8 emulator of shkov/chip8, final variant of src/src/emulator.cc *)
(* (lines 373-822), with its collaborators Keyboard (src/src/keyboard.h),  *)
(* Speaker (src/src/speaker.h) and the display window                     *)
(* (src/unnamed/part_003).                                                 *)
(*                                                                         *)
(* The run loop StartExecutionLoop is a state machine over loc_:          *)
(*   "head"    -> while (screen_.IsOpen())                                 *)
(*   "fetch"   -> Fetch(); Decode()                                        *)
(*   "execute" -> Execute(instr), one action per handler                   *)
(*   "waitkey" -> inside Keyboard::WaitForKeyPress                         *)
(*   "tick"    -> OnTimersTick()                                           *)
(*   "returned"   the loop has returned normally                           *)
(*   "thrown"     an exception left StartExecutionLoop (caught in main)    *)
(*   "aborted"    assert(false) fired                                      *)
(*   "undefined"  an out-of-bounds array access happened: the behaviour of *)
(*                the program is undefined from here on and is not         *)
(*                followed further                                         *)
(*                                                                         *)
(* memory_ and screen_matrix_ are arrays that are almost everywhere 0;     *)
(* both are stored as the function from their non-zero cells to the cell's *)
(* value, and read through Mem and Pixel.                                  *)
(***************************************************************************)
EXTENDS Integers, Sequences, FiniteSets, TLC

(***************************************************************************)
(* Program constants                                                       *)
(***************************************************************************)
kChip8MemorySize == 4096
kChip8ProgramStartAddress == 512
kChip8ScreenWidth == 64
kChip8ScreenHeight == 32
StackSize == 16
NumRegisters == 16

kChip8FontSet ==
  << 240, 144, 144, 144, 240,   32,  96,  32,  32, 112,
     240,  16, 240, 128, 240,  240,  16, 240,  16, 240,
     144, 144, 240,  16,  16,  240, 128, 240,  16, 240,
     240, 128, 240, 144, 240,  240,  16,  32,  64,  64,
     240, 144, 240, 144, 240,  240, 144, 240,  16, 240,
     240, 144, 240, 144, 144,  224, 144, 224, 144, 224,
     240, 128, 128, 128, 240,  224, 144, 144, 144, 224,
     240, 128, 240, 128, 240,  240, 128, 240, 128, 128 >>

(***************************************************************************)
(* Fixed-width integer arithmetic                                          *)
(***************************************************************************)
U8(n)  == n % 256
U16(n) == n % 65536

RECURSIVE BitAnd(_, _)
BitAnd(a, b) ==
  IF a = 0 \/ b = 0 THEN 0
  ELSE (a % 2) * (b % 2) + 2 * BitAnd(a \div 2, b \div 2)

RECURSIVE BitOr(_, _)
BitOr(a, b) ==
  IF a = 0 THEN b
  ELSE IF b = 0 THEN a
  ELSE (IF a % 2 = 1 \/ b % 2 = 1 THEN 1 ELSE 0) + 2 * BitOr(a \div 2, b \div 2)

RECURSIVE BitXor(_, _)
BitXor(a, b) ==
  IF a = 0 THEN b
  ELSE IF b = 0 THEN a
  ELSE ((a + b) % 2) + 2 * BitXor(a \div 2, b \div 2)

Shl(a, k) == a * (2 ^ k)
Shr(a, k) == a \div (2 ^ k)

(***************************************************************************)
(* Sparse arrays: the function from the non-zero cells to their value      *)
(***************************************************************************)
Zeroed == [c \in {} |-> 0]

Cell(arr, c) == IF c \in DOMAIN arr THEN arr[c] ELSE 0

\* arr with cell c assigned v; a loop of assignments keeps the zeros it
\* writes until Compact drops them at its end.
Put(arr, c, v) == (c :> v) @@ arr

Compact(arr) == [c \in {d \in DOMAIN arr : arr[d] # 0} |-> arr[c]]

Mem(mem, a) == Cell(mem, a)
Pixel(scr, y, x) == Cell(scr, <<y, x>>)

(***************************************************************************)
(* State                                                                   *)
(***************************************************************************)
VARIABLES
  variable_registers_,  \* std::array<uint8_t, 16>
  stack_,               \* std::array<uint16_t, 16>
  stack_pointer_,       \* uint8_t
  memory_,              \* std::array<uint8_t, 4096>, sparse
  program_counter_,     \* int
  screen_matrix_,       \* 32 x 64 array of uint8_t, sparse
  index_register_,      \* uint16_t
  delay_timer_,         \* uint8_t
  sound_timer_,         \* uint8_t
  closed_,              \* the window's closed_ flag
  loc_,                 \* position of the run loop
  instr_,               \* the Instruction local of the run loop
  rom_size_,            \* size in bytes of the loaded ROM file
  steps_,               \* loop iterations begun
  max_steps_,           \* iterations explored for this ROM
  ticks_,               \* OnTimersTick calls completed
  draw_calls_,          \* calls of screen_.Draw that reached the display
  shown_,               \* the framebuffer last handed to the display
  plays_,               \* calls of speaker_.Play
  prev_,                \* machine state before the last Execute
  prev2_                \* machine state before the Execute before that

vars ==
  << variable_registers_, stack_, stack_pointer_, memory_, program_counter_,
     screen_matrix_, index_register_, delay_timer_, sound_timer_, closed_,
     loc_, instr_, rom_size_, steps_, max_steps_, ticks_,
     draw_calls_, shown_, plays_, prev_, prev2_ >>

Registers == 0 .. (NumRegisters - 1)
VF == 15

Running  == loc_ \in {"head", "fetch", "execute", "waitkey", "tick"}
Stopped  == loc_ \in {"returned", "thrown", "aborted", "load_failed"}

(***************************************************************************)
(* The machine state an Execute starts from, kept for the last two         *)
(* instructions executed                                                   *)
(***************************************************************************)
NoSnapshot ==
  [ raw |-> -1, at |-> -1, V |-> [r \in Registers |-> 0], I |-> 0,
    sp |-> 0, screen |-> Zeroed, dt |-> 0, st |-> 0 ]

Snapshot ==
  [ raw |-> instr_.raw, at |-> program_counter_ - 2,
    V |-> variable_registers_, I |-> index_register_, sp |-> stack_pointer_,
    screen |-> screen_matrix_, dt |-> delay_timer_, st |-> sound_timer_ ]

(***************************************************************************)
(* Construction: Emulator::Emulator                                        *)
(***************************************************************************)
\* ClearScreen's loops: every cell of the matrix is assigned 0.
ClearedMatrix(scr) ==
  [c \in {d \in DOMAIN scr :
             ~(d[1] \in 0 .. (kChip8ScreenHeight - 1)
               /\ d[2] \in 0 .. (kChip8ScreenWidth - 1))} |-> scr[c]]

\* for (i = 0; i < kChip8FontSet.size(); i++) memory_[i] = kChip8FontSet[i];
LoadFontSet(mem) ==
  Compact([a \in (DOMAIN mem) \cup (0 .. (Len(kChip8FontSet) - 1)) |->
             IF a < Len(kChip8FontSet) THEN kChip8FontSet[a + 1] ELSE mem[a]])

\* rom_file.read(memory_.data() + kChip8ProgramStartAddress, file_size);
ReadInto(mem, bytes) ==
  LET last == kChip8ProgramStartAddress + Len(bytes) - 1 IN
  Compact([a \in (DOMAIN mem) \cup (kChip8ProgramStartAddress .. last) |->
             IF a >= kChip8ProgramStartAddress /\ a <= last
             THEN bytes[a - kChip8ProgramStartAddress + 1] ELSE mem[a]])

\* The outcome of LoadProgramText on a ROM file: "ok" and the memory after
\* the read, "thrown" (the file cannot be opened or is too large), or
\* "undefined" (the read runs past the end of memory_).
LoadProgramText(mem, rom) ==
  IF ~rom.readable
  THEN [outcome |-> "thrown", mem |-> mem]
  ELSE LET file_size == Len(rom.bytes) IN
       IF file_size > kChip8MemorySize
       THEN [outcome |-> "thrown", mem |-> mem]
       ELSE IF kChip8ProgramStartAddress + file_size > kChip8MemorySize
       THEN [outcome |-> "undefined", mem |-> mem]
       ELSE [outcome |-> "ok", mem |-> ReadInto(mem, rom.bytes)]

(***************************************************************************)
(* Fetch and Decode                                                        *)
(***************************************************************************)
InMemory(a) == a >= 0 /\ a < kChip8MemorySize

\* Fetch: the two bytes at program_counter_; has_value is what the optional
\* it returns holds, in_bounds whether both reads were inside memory_.
Fetch(mem, pc) ==
  [ has_value |-> TRUE,
    in_bounds |-> InMemory(pc) /\ InMemory(pc + 1),
    first     |-> Mem(mem, pc),
    sec       |-> Mem(mem, pc + 1),
    pc        |-> pc + 2 ]

\* A faulty Decode that takes both nibbles of the low byte from its low half;
\* C7 has to reject it.
DecodeLowHalfTwice(high_byte, low_byte) ==
  [ raw           |-> U16(BitOr(U16(Shl(high_byte, 8)), low_byte)),
    first_nibble  |-> U8(Shr(high_byte, 4)),
    second_nibble |-> U8(BitAnd(high_byte, 15)),
    third_nibble  |-> U8(BitAnd(low_byte, 15)),
    fourth_nibble |-> U8(BitAnd(low_byte, 15)) ]

Decode(high_byte, low_byte) ==
  [ raw           |-> U16(BitOr(U16(Shl(high_byte, 8)), low_byte)),
    first_nibble  |-> U8(Shr(high_byte, 4)),
    second_nibble |-> U8(BitAnd(high_byte, 15)),
    third_nibble  |-> U8(Shr(low_byte, 4)),
    fourth_nibble |-> U8(BitAnd(low_byte, 15)) ]

NoInstruction == Decode(0, 0)

(***************************************************************************)
(* Opcode handlers on the registers                                        *)
(***************************************************************************)
SetRegisterVx(V, x, value) == [V EXCEPT ![x] = value]

\* A faulty AddToRegisterVx that raises VF when the addition wraps; C6 has to
\* reject it.
AddToRegisterVxWithCarry(V, x, value) ==
  LET V1 == [V EXCEPT ![VF] = IF V[x] + value > 255 THEN 1 ELSE V[VF]]
  IN  [V1 EXCEPT ![x] = U8(V[x] + value)]

AddToRegisterVx(V, x, value) == [V EXCEPT ![x] = U8(V[x] + value)]

SetVy2Vx(V, x, y) == [V EXCEPT ![x] = V[y]]

VxBinaryOrVy(V, x, y) == [V EXCEPT ![x] = BitOr(V[x], V[y])]

VxBinaryAndVy(V, x, y) == [V EXCEPT ![x] = BitAnd(V[x], V[y])]

VxBinaryXorVy(V, x, y) == [V EXCEPT ![x] = BitXor(V[x], V[y])]

\* A faulty AddVy2Vx that raises the carry at 255 already; C5 has to reject
\* it.
AddVy2VxCarryAt255(V, x, y) ==
  LET result == V[x] + V[y]
      V1 == [V EXCEPT ![VF] = IF result >= 255 THEN 1 ELSE 0]
  IN  [V1 EXCEPT ![x] = U8(result)]

AddVy2Vx(V, x, y) ==
  LET result == V[x] + V[y]
      V1 == [V EXCEPT ![VF] = IF result > 255 THEN 1 ELSE 0]
  IN  [V1 EXCEPT ![x] = U8(result)]

VxSubtractVy(V, x, y) ==
  LET V1 == [V EXCEPT ![VF] = IF V[x] > V[y] THEN 1 ELSE 0]
  IN  [V1 EXCEPT ![x] = U8(V1[x] - V1[y])]

VySubtractVx(V, x, y) ==
  LET V1 == [V EXCEPT ![VF] = IF V[y] > V[x] THEN 1 ELSE 0]
  IN  [V1 EXCEPT ![x] = U8(V1[y] - V1[x])]

ShiftVxRight(V, x) ==
  LET shifted == BitAnd(V[x], 1)
      V1 == [V EXCEPT ![VF] = IF shifted > 0 THEN 1 ELSE 0]
  IN  [V1 EXCEPT ![x] = Shr(V1[x], 1)]

ShiftVxLeft(V, x) ==
  LET shifted == BitAnd(V[x], 8)
      V1 == [V EXCEPT ![VF] = IF shifted > 0 THEN 1 ELSE 0]
  IN  [V1 EXCEPT ![x] = U8(Shl(V1[x], 1))]

\* rnd is the value std::rand() returned.
VxBinaryAndRandom(V, x, value, rnd) ==
  LET random == rnd % 8
  IN  [V EXCEPT ![x] = BitAnd(random, value)]

SetDelayTimer2Vx(V, x, dt) == [V EXCEPT ![x] = dt]

(***************************************************************************)
(* Opcode handlers on the program counter and the call stack               *)
(***************************************************************************)
Jump(address) == address

JumpWithOffset(V, address) == address + V[0]

SkipInstructionIfVxEqual(V, pc, x, value) ==
  IF V[x] = value THEN pc + 2 ELSE pc

SkipInstructionIfVxNotEqual(V, pc, x, value) ==
  IF V[x] # value THEN pc + 2 ELSE pc

SkipInstructionIfVxEqualVy(V, pc, x, y) ==
  IF V[x] = V[y] THEN pc + 2 ELSE pc

\* A faulty 9xy0 that skips whatever the registers hold; C26 has to reject it.
SkipInstructionAlways(V, pc, x, y) == pc + 2


SkipInstructionIfVxNotEqualVy(V, pc, x, y) ==
  IF V[x] # V[y] THEN pc + 2 ELSE pc

InStack(i) == i >= 0 /\ i < StackSize

\* ++stack_pointer_; stack_[stack_pointer_] = program_counter_;
CallSubroutine(stack, sp, pc, address) ==
  LET sp1 == U8(sp + 1) IN
  [ in_bounds |-> InStack(sp1),
    sp        |-> sp1,
    stack     |-> IF InStack(sp1) THEN [stack EXCEPT ![sp1] = U16(pc)] ELSE stack,
    pc        |-> address ]

\* addr{ stack_[stack_pointer_--] };
ReturnFromSubroutine(stack, sp) ==
  [ in_bounds |-> InStack(sp),
    sp        |-> U8(sp - 1),
    pc        |-> IF InStack(sp) THEN stack[sp] ELSE 0 ]

(***************************************************************************)
(* Opcode handlers on the index register and memory                        *)
(***************************************************************************)
SetIndexRegister(value) == value

AddVx2IndexRegister(V, I, x) == U16(I + V[x])

SetIndexRegisterForFont(V, x) == V[x]

\* A faulty HexInVxToDecimal whose tens digit is not reduced modulo 10; C21
\* has to reject it.
HexInVxToDecimalTensNotReduced(mem, V, I, x) ==
  LET hex_number == V[x]
      m1 == Put(mem, I, hex_number \div 100)
      m2 == Put(m1, I + 1, hex_number \div 10)
      m3 == Put(m2, I + 2, (hex_number % 100) % 10)
  IN  [ in_bounds |-> InMemory(I) /\ InMemory(I + 2),
        mem       |-> IF InMemory(I) /\ InMemory(I + 2) THEN Compact(m3) ELSE mem ]

HexInVxToDecimal(mem, V, I, x) ==
  LET hex_number == V[x]
      m1 == Put(mem, I, hex_number \div 100)
      m2 == Put(m1, I + 1, (hex_number \div 10) % 10)
      m3 == Put(m2, I + 2, (hex_number % 100) % 10)
  IN  [ in_bounds |-> InMemory(I) /\ InMemory(I + 2),
        mem       |-> IF InMemory(I) /\ InMemory(I + 2) THEN Compact(m3) ELSE mem ]

RECURSIVE StoreFrom(_, _, _, _, _)
StoreFrom(mem, V, I, x, i) ==
  IF i <= x THEN StoreFrom(Put(mem, I + i, V[i]), V, I, x, i + 1) ELSE mem

StoreRegistersInMemory(mem, V, I, x) ==
  [ in_bounds |-> InMemory(I) /\ InMemory(I + x),
    mem       |-> IF InMemory(I) /\ InMemory(I + x)
                  THEN Compact(StoreFrom(mem, V, I, x, 0)) ELSE mem ]

RECURSIVE LoadFrom(_, _, _, _, _)
LoadFrom(mem, V, I, x, i) ==
  IF i <= x THEN LoadFrom(mem, [V EXCEPT ![i] = Mem(mem, I + i)], I, x, i + 1) ELSE V

\* A faulty LoadRegistersFromMemory whose loop stops before Vx; C22 has to
\* reject it.
LoadRegistersFromMemoryBelowVx(mem, V, I, x) ==
  [ in_bounds |-> InMemory(I) /\ InMemory(I + x),
    V         |-> IF InMemory(I) /\ InMemory(I + x)
                  THEN LoadFrom(mem, V, I, x - 1, 0) ELSE V ]

LoadRegistersFromMemory(mem, V, I, x) ==
  [ in_bounds |-> InMemory(I) /\ InMemory(I + x),
    V         |-> IF InMemory(I) /\ InMemory(I + x)
                  THEN LoadFrom(mem, V, I, x, 0) ELSE V ]

(***************************************************************************)
(* Dxyn: Emulator::Display                                                 *)
(***************************************************************************)
\* The inner loop, for (x = xx; x < 8; ++x), over the bits of one sprite row;
\* acc is [screen, vf].
RECURSIVE DisplayBits(_, _, _, _, _)
DisplayBits(acc, pixel, target_y, start_from_x, xx) ==
  IF xx < 8
  THEN LET target_x == start_from_x + xx IN
       IF target_x >= kChip8ScreenWidth
       THEN acc
       ELSE IF BitAnd(pixel, Shr(128, xx)) # 0
       THEN LET location == Pixel(acc.screen, target_y, target_x) IN
            DisplayBits(
              [ screen |-> Put(acc.screen, <<target_y, target_x>>, BitXor(location, 1)),
                vf     |-> IF location # 0 THEN 1 ELSE acc.vf ],
              pixel, target_y, start_from_x, xx + 1)
       ELSE DisplayBits(acc, pixel, target_y, start_from_x, xx + 1)
  ELSE acc

\* The outer loop, for (y = yy; y < n; ++y), over the sprite's rows; acc is
\* [screen, vf, in_bounds], and the loop is left at the first read outside
\* memory_.
RECURSIVE DisplayRows(_, _, _, _, _, _, _)
DisplayRows(acc, mem, I, n, start_from_y, start_from_x, yy) ==
  IF acc.in_bounds /\ yy < n
  THEN LET target_y == start_from_y + yy IN
       IF target_y >= kChip8ScreenHeight
       THEN acc
       ELSE IF ~InMemory(I + yy)
       THEN [acc EXCEPT !.in_bounds = FALSE]
       ELSE LET pixel == Mem(mem, I + yy)
                row   == DisplayBits([screen |-> acc.screen, vf |-> acc.vf],
                                     pixel, target_y, start_from_x, 0)
            IN  DisplayRows(
                  [screen |-> row.screen, vf |-> row.vf, in_bounds |-> TRUE],
                  mem, I, n, start_from_y, start_from_x, yy + 1)
  ELSE acc

\* A faulty Display that does not wrap the anchor column into the screen; C8
\* has to reject it.
DisplayAnchorNotWrapped(V, mem, I, scr, x, y, n) ==
  LET start_from_y == V[y] % kChip8ScreenHeight
      start_from_x == V[x]
      done == DisplayRows([screen |-> scr, vf |-> 0, in_bounds |-> TRUE],
                          mem, I, n, start_from_y, start_from_x, 0)
  IN  [ in_bounds |-> done.in_bounds,
        V         |-> [V EXCEPT ![VF] = done.vf],
        screen    |-> Compact(done.screen) ]

\* A faulty Display that never turns a lit pixel off; C9 has to reject it.
DisplayOnlyLights(V, mem, I, scr, x, y, n) ==
  LET start_from_y == V[y] % kChip8ScreenHeight
      start_from_x == V[x] % kChip8ScreenWidth
      done == DisplayRows([screen |-> scr, vf |-> 0, in_bounds |-> TRUE],
                          mem, I, n, start_from_y, start_from_x, 0)
  IN  [ in_bounds |-> done.in_bounds,
        V         |-> [V EXCEPT ![VF] = done.vf],
        screen    |-> Compact([c \in DOMAIN done.screen \cup DOMAIN scr |->
                                 IF Cell(scr, c) # 0 THEN 1
                                 ELSE Cell(done.screen, c)]) ]

\* A faulty Display that never reports a collision; C10 has to reject it.
DisplayNeverCollides(V, mem, I, scr, x, y, n) ==
  LET start_from_y == V[y] % kChip8ScreenHeight
      start_from_x == V[x] % kChip8ScreenWidth
      done == DisplayRows([screen |-> scr, vf |-> 0, in_bounds |-> TRUE],
                          mem, I, n, start_from_y, start_from_x, 0)
  IN  [ in_bounds |-> done.in_bounds,
        V         |-> [V EXCEPT ![VF] = 0],
        screen    |-> Compact(done.screen) ]

Display(V, mem, I, scr, x, y, n) ==
  LET start_from_y == V[y] % kChip8ScreenHeight
      start_from_x == V[x] % kChip8ScreenWidth
      done == DisplayRows([screen |-> scr, vf |-> 0, in_bounds |-> TRUE],
                          mem, I, n, start_from_y, start_from_x, 0)
  IN  [ in_bounds |-> done.in_bounds,
        V         |-> [V EXCEPT ![VF] = done.vf],
        screen    |-> Compact(done.screen) ]

(***************************************************************************)
(* Timers: Emulator::OnTimersTick                                          *)
(***************************************************************************)
\* A faulty OnTimersTick that decrements the timers without looking at
\* them; C16 has to reject it.
OnTimersTickUnguarded(dt, st) ==
  LET dt1 == U8(dt - 1)
      st1 == U8(st - 1)
  IN  [ delay_timer |-> dt1, sound_timer |-> st1, play |-> st1 > 0 ]

OnTimersTick(dt, st) ==
  LET dt1 == IF dt > 0 THEN dt - 1 ELSE dt
      st1 == IF st > 0 THEN st - 1 ELSE st
  IN  [ delay_timer |-> dt1, sound_timer |-> st1, play |-> st1 > 0 ]

(***************************************************************************)
(* Keyboard (src/src/keyboard.h); host keys are sf::Keyboard::Key values   *)
(***************************************************************************)
sf ==
  [ Unknown |-> -1,
    A |-> 0,  B |-> 1,  C |-> 2,  D |-> 3,  E |-> 4,  F |-> 5,  Q |-> 16,
    R |-> 17, S |-> 18, V |-> 21, W |-> 22, X |-> 23, Z |-> 25,
    Num1 |-> 27, Num2 |-> 28, Num3 |-> 29, Num4 |-> 30, Num5 |-> 31 ]

\* The sf key of a CHIP-8 key; asserted is whether assert(false) is reached.
ConvertChip8ToQwerty(key) ==
  CASE key = 1  -> [asserted |-> FALSE, key |-> sf.Num1]
    [] key = 2  -> [asserted |-> FALSE, key |-> sf.Num2]
    [] key = 3  -> [asserted |-> FALSE, key |-> sf.Num3]
    [] key = 12 -> [asserted |-> FALSE, key |-> sf.Num4]
    [] key = 4  -> [asserted |-> FALSE, key |-> sf.Q]
    [] key = 5  -> [asserted |-> FALSE, key |-> sf.W]
    [] key = 6  -> [asserted |-> FALSE, key |-> sf.E]
    [] key = 13 -> [asserted |-> FALSE, key |-> sf.R]
    [] key = 7  -> [asserted |-> FALSE, key |-> sf.A]
    [] key = 8  -> [asserted |-> FALSE, key |-> sf.S]
    [] key = 9  -> [asserted |-> FALSE, key |-> sf.D]
    [] key = 14 -> [asserted |-> FALSE, key |-> sf.F]
    [] key = 10 -> [asserted |-> FALSE, key |-> sf.Z]
    [] key = 0  -> [asserted |-> FALSE, key |-> sf.X]
    [] key = 11 -> [asserted |-> FALSE, key |-> sf.C]
    [] key = 15 -> [asserted |-> FALSE, key |-> sf.V]
    [] OTHER    -> [asserted |-> TRUE,  key |-> sf.Unknown]

\* A faulty ConvertQwertyToChip8 that answers with the key code of a key it
\* does not know; C19 has to reject it.
ConvertQwertyToChip8AnyKey(key) ==
  CASE key = sf.Num1 -> [has_value |-> TRUE, value |-> 1]
    [] key = sf.Num2 -> [has_value |-> TRUE, value |-> 2]
    [] key = sf.Num3 -> [has_value |-> TRUE, value |-> 3]
    [] key = sf.Num4 -> [has_value |-> TRUE, value |-> 12]
    [] key = sf.Q    -> [has_value |-> TRUE, value |-> 4]
    [] key = sf.W    -> [has_value |-> TRUE, value |-> 5]
    [] key = sf.E    -> [has_value |-> TRUE, value |-> 6]
    [] key = sf.R    -> [has_value |-> TRUE, value |-> 13]
    [] key = sf.A    -> [has_value |-> TRUE, value |-> 7]
    [] key = sf.S    -> [has_value |-> TRUE, value |-> 8]
    [] key = sf.D    -> [has_value |-> TRUE, value |-> U8(sf.D)]
    [] key = sf.F    -> [has_value |-> TRUE, value |-> 14]
    [] key = sf.Z    -> [has_value |-> TRUE, value |-> 10]
    [] key = sf.X    -> [has_value |-> TRUE, value |-> 0]
    [] key = sf.C    -> [has_value |-> TRUE, value |-> 11]
    [] key = sf.V    -> [has_value |-> TRUE, value |-> 15]
    [] OTHER         -> [has_value |-> TRUE, value |-> U8(key)]

ConvertQwertyToChip8(key) ==
  CASE key = sf.Num1 -> [has_value |-> TRUE, value |-> 1]
    [] key = sf.Num2 -> [has_value |-> TRUE, value |-> 2]
    [] key = sf.Num3 -> [has_value |-> TRUE, value |-> 3]
    [] key = sf.Num4 -> [has_value |-> TRUE, value |-> 12]
    [] key = sf.Q    -> [has_value |-> TRUE, value |-> 4]
    [] key = sf.W    -> [has_value |-> TRUE, value |-> 5]
    [] key = sf.E    -> [has_value |-> TRUE, value |-> 6]
    [] key = sf.R    -> [has_value |-> TRUE, value |-> 13]
    [] key = sf.A    -> [has_value |-> TRUE, value |-> 7]
    [] key = sf.S    -> [has_value |-> TRUE, value |-> 8]
    [] key = sf.D    -> [has_value |-> TRUE, value |-> U8(sf.D)]
    [] key = sf.F    -> [has_value |-> TRUE, value |-> 14]
    [] key = sf.Z    -> [has_value |-> TRUE, value |-> 10]
    [] key = sf.X    -> [has_value |-> TRUE, value |-> 0]
    [] key = sf.C    -> [has_value |-> TRUE, value |-> 11]
    [] key = sf.V    -> [has_value |-> TRUE, value |-> 15]
    [] OTHER         -> [has_value |-> FALSE, value |-> 0]

\* The keys a key event can carry or the keyboard can hold down: the sixteen
\* mapped keys and two that map to no CHIP-8 key.
HostKeys ==
  { sf.Num1, sf.Num2, sf.Num3, sf.Num4, sf.Q, sf.W, sf.E, sf.R,
    sf.A, sf.S, sf.D, sf.F, sf.Z, sf.X, sf.C, sf.V, sf.B, sf.Num5 }

\* Keyboard::IsKeyPressed with the host key `held` down (sf.Unknown: none).
\* sf::Keyboard::isKeyPressed(sf::Keyboard::Unknown) is false.
IsKeyPressed(key, held) ==
  LET q == ConvertChip8ToQwerty(key)
  IN  [ asserted |-> q.asserted,
        pressed  |-> q.key # sf.Unknown /\ q.key = held ]

(***************************************************************************)
(* Emulator::Execute: the handler the nested switch selects, "return" for  *)
(* the paths that leave Execute without calling one, "throw" for           *)
(* std::invalid_argument{ "unknown opcode" }                               *)
(***************************************************************************)
Execute(instr) ==
  LET n1 == instr.first_nibble
      n3 == instr.third_nibble
      n4 == instr.fourth_nibble
  IN
  CASE n1 = 0 ->
         IF n3 = 14
         THEN CASE n4 = 0  -> "ClearScreen"
                [] n4 = 14 -> "ReturnFromSubroutine"
                [] OTHER   -> "throw"
         ELSE "return"
    [] n1 = 1  -> "Jump"
    [] n1 = 2  -> "CallSubroutine"
    [] n1 = 3  -> "SkipInstructionIfVxEqual"
    [] n1 = 4  -> "SkipInstructionIfVxNotEqual"
    [] n1 = 5  -> "SkipInstructionIfVxEqualVy"
    [] n1 = 6  -> "SetRegisterVx"
    [] n1 = 7  -> "AddToRegisterVx"
    [] n1 = 8  ->
         CASE n4 = 0  -> "SetVy2Vx"
           [] n4 = 1  -> "VxBinaryOrVy"
           [] n4 = 2  -> "VxBinaryAndVy"
           [] n4 = 3  -> "VxBinaryXorVy"
           [] n4 = 4  -> "AddVy2Vx"
           [] n4 = 5  -> "VxSubtractVy"
           [] n4 = 6  -> "ShiftVxRight"
           [] n4 = 7  -> "VySubtractVx"
           [] n4 = 14 -> "ShiftVxLeft"
           [] OTHER   -> "throw"
    [] n1 = 9  -> "SkipInstructionIfVxNotEqualVy"
    [] n1 = 10 -> "SetIndexRegister"
    [] n1 = 11 -> "JumpWithOffset"
    [] n1 = 12 -> "VxBinaryAndRandom"
    [] n1 = 13 -> "Display"
    [] n1 = 14 ->
         IF n3 = 9 /\ n4 = 14 THEN "SkipInstructionIfPressed"
         ELSE IF n3 = 10 /\ n4 = 1 THEN "SkipInstructionIfNotPressed"
         ELSE "throw"
    [] n1 = 15 ->
         IF n3 = 1 /\ n4 = 14 THEN "AddVx2IndexRegister"
         ELSE IF n3 = 0 /\ n4 = 10 THEN "WaitForKeyPress"
         ELSE IF n3 = 2 /\ n4 = 9 THEN "SetIndexRegisterForFont"
         ELSE IF n3 = 3 /\ n4 = 3 THEN "HexInVxToDecimal"
         ELSE IF n3 = 5 /\ n4 = 5 THEN "StoreRegistersInMemory"
         ELSE IF n3 = 6 /\ n4 = 5 THEN "LoadRegistersFromMemory"
         ELSE IF n3 = 0 /\ n4 = 7 THEN "SetDelayTimer2Vx"
         ELSE IF n3 = 1 /\ n4 = 5 THEN "SetDelayTimer"
         ELSE IF n3 = 1 /\ n4 = 8 THEN "SetSoundTimer"
         ELSE "throw"
    [] OTHER -> "throw"

\* The arguments Execute passes to the handlers.
ArgX   == instr_.second_nibble
ArgY   == instr_.third_nibble
ArgN   == instr_.fourth_nibble
ArgNN  == BitAnd(instr_.raw, 255)
ArgNNN == BitAnd(instr_.raw, 4095)

(***************************************************************************)
(* The ROMs explored                                                       *)
(***************************************************************************)
MaxVals  == 4   \* register values tried, the first MaxVals of ByteVals
MaxPairs == 4   \* register pairs tried, the first MaxPairs of RegPairs
PastEnd  == 1   \* instructions followed after the last one of the ROM
MaxRand  == 8   \* std::rand() returns 0 .. MaxRand

ByteVals == << 0, 255, 128, 8, 1, 136, 127, 16 >>
ByteSample == { ByteVals[i] : i \in 1 .. MaxVals }

RegPairs == << <<1, 2>>, <<1, 1>>, <<1, 15>>, <<15, 1>>, <<0, 15>>, <<15, 15>>, <<2, 0>> >>
RegPairSample == { RegPairs[i] : i \in 1 .. MaxPairs }

Word(n1, n2, n3, n4) == n1 * 4096 + n2 * 256 + n3 * 16 + n4
WordNN(n1, n2, nn)   == n1 * 4096 + n2 * 256 + nn
WordNNN(n1, nnn)     == n1 * 4096 + nnn

WordsToBytes(ws) ==
  [ i \in 1 .. 2 * Len(ws) |->
      IF i % 2 = 1 THEN ws[(i + 1) \div 2] \div 256 ELSE ws[i \div 2] % 256 ]

Rom(ws, steps) ==
  [ rom |-> [readable |-> TRUE, bytes |-> WordsToBytes(ws)], steps |-> steps ]

\* One instruction of every kind on registers x and y, with bb as its
\* immediate operand.
OneOfEach(x, y, bb) ==
  { Word(0, 0, 14, 0), Word(0, 0, 14, 14), Word(0, x, y, 3), Word(0, 0, 14, 1),
    WordNNN(1, 3840 + bb), WordNNN(2, 3840 + bb),
    WordNN(3, x, bb), WordNN(4, x, bb), Word(5, x, y, 0), Word(5, x, y, 1),
    WordNN(7, x, bb), WordNN(7, x, 0),
    Word(8, x, y, 0), Word(8, x, y, 1), Word(8, x, y, 2), Word(8, x, y, 3),
    Word(8, x, y, 4), Word(8, x, y, 5), Word(8, x, y, 6), Word(8, x, y, 7),
    Word(8, x, y, 14), Word(8, x, y, 8),
    Word(9, x, y, 0), Word(9, x, y, 2),
    WordNNN(10, 3840 + bb), WordNNN(11, 3840 + bb), WordNN(12, x, bb),
    Word(13, x, y, 5),
    WordNN(14, x, 158), WordNN(14, x, 161), WordNN(14, x, 0),
    WordNN(15, x, 7), WordNN(15, x, 10), WordNN(15, x, 21), WordNN(15, x, 24),
    WordNN(15, x, 30), WordNN(15, x, 41), WordNN(15, x, 51), WordNN(15, x, 85),
    WordNN(15, x, 101), WordNN(15, x, 0) }

\* 6xaa 6ybb followed by one instruction.
RegisterRoms ==
  UNION { { Rom(<< WordNN(6, t[1][1], t[2]), WordNN(6, t[1][2], t[3]), w >>,
                3 + PastEnd) : w \in OneOfEach(t[1][1], t[1][2], t[3]) } :
          t \in RegPairSample \X ByteSample \X ByteSample }

\* What is on the screen before the sprite: the glyph of 0 at the top left
\* corner, drawn by D005 with I = 0, or nothing.
Backgrounds == { Word(13, 0, 0, 5), Word(0, 0, 14, 0) }

\* Where the sprite is read from: the font, the ROM's last word, and the last
\* byte of memory.
SpriteAddresses ==
  { 0, kChip8ProgramStartAddress + 12, kChip8MemorySize - 1 }

SpriteHeights == { 0, 2, 15 }

\* A background, Annn, 6xaa 6ybb, the same Dxyn twice, and a word of sprite
\* data.
DrawRoms ==
  UNION { { Rom(<< d[1], WordNNN(10, d[2]),
                   WordNN(6, t[1][1], t[2]), WordNN(6, t[1][2], t[3]),
                   Word(13, t[1][1], t[1][2], d[3]),
                   Word(13, t[1][1], t[1][2], d[3]),
                   WordNN(15, 15, 129) >>,
                6 + PastEnd) :
              d \in Backgrounds \X SpriteAddresses \X SpriteHeights } :
          t \in RegPairSample \X ByteSample \X ByteSample }

\* k nested calls, each to the word after it, and then 00EE.
CallChain(k) ==
  [ i \in 1 .. (k + 1) |->
      IF i <= k THEN WordNNN(2, kChip8ProgramStartAddress + 2 * i)
      ELSE Word(0, 0, 14, 14) ]

\* Call chains up to one call more than stack_ has slots, followed until the
\* returns have emptied the stack and one more has run.
CallRoms == { Rom(CallChain(k), 2 * k + 2 + PastEnd) : k \in 0 .. StackSize }

\* A file of size bytes: 00E0 and zeroes, with a last byte of 1.
FileOfSize(size) ==
  [ i \in 1 .. size |-> IF i = 2 THEN 224 ELSE IF i = size THEN 1 ELSE 0 ]

\* Files that just fit behind the program start address, that just do not,
\* that are as large as memory_ and one byte larger, and a file that cannot
\* be opened.
LoadRoms ==
  { [ rom |-> [readable |-> TRUE, bytes |-> FileOfSize(size)], steps |-> 1 ] :
      size \in { kChip8MemorySize - kChip8ProgramStartAddress,
                 kChip8MemorySize - kChip8ProgramStartAddress + 1,
                 kChip8MemorySize,
                 kChip8MemorySize + 1 } }
  \cup { [ rom |-> [readable |-> FALSE, bytes |-> << >>], steps |-> 1 ] }

\* The values the timers are set to.
TimerVals == { 0, 1, 2, 255 }

\* 61vv 62ww F115 F218 F107: both timers set, and the delay timer read back.
TimerRoms ==
  { Rom(<< WordNN(6, 1, t[1]), WordNN(6, 2, t[2]),
           WordNN(15, 1, 21), WordNN(15, 2, 24), WordNN(15, 1, 7) >>,
        5 + PastEnd) :
      t \in TimerVals \X TimerVals }

\* Where Fx33 writes: inside memory, with its last digit on the last byte of
\* memory, and with its last digit past it.
BcdAddresses == { 768, kChip8MemorySize - 3, kChip8MemorySize - 2 }

\* Annn 61vv F133, for every byte vv.
BcdRoms ==
  { Rom(<< WordNNN(10, t[1]), WordNN(6, 1, t[2]), WordNN(15, 1, 51) >>,
        3 + PastEnd) :
      t \in BcdAddresses \X (0 .. 255) }

\* The value register i is given before it is spilled.
SpillValue(i) == 16 * i + 1

\* V0 .. VF set to their SpillValue, Annn, Fx55, V0 .. Vx cleared, Fx65.
SpillChain(x, nnn) ==
  [ i \in 1 .. 16 |-> WordNN(6, i - 1, SpillValue(i - 1)) ]
    \o << WordNNN(10, nnn), WordNN(15, x, 85) >>
    \o [ i \in 1 .. (x + 1) |-> WordNN(6, i - 1, 0) ]
    \o << WordNN(15, x, 101) >>

\* Where V0 .. Vx are spilled: inside memory, with Vx on the last byte of
\* memory, and with Vx past it.
SpillAddresses(x) == { 768, kChip8MemorySize - 1 - x, kChip8MemorySize - x }

SpillRoms ==
  UNION { { Rom(SpillChain(x, nnn), x + 20 + PastEnd) :
              nnn \in SpillAddresses(x) } : x \in Registers }

\* The glyph of 0 drawn by D005, then 0sE0 and 00E0.
ClearRoms ==
  { Rom(<< Word(13, 0, 0, 5), Word(0, s, 14, 0), Word(0, 0, 14, 0) >>,
        3 + PastEnd) : s \in {0, 1} }

\* k subroutines, each calling the next and then returning: a call to the
\* first, the word Fx00 the last return comes back to, and subroutine i at
\* kChip8ProgramStartAddress + 4 * i; the k-th only returns.
NestChain(k) ==
  [ j \in 1 .. (2 * k + 1) |->
      IF j = 1 THEN WordNNN(2, kChip8ProgramStartAddress + 4)
      ELSE IF j = 2 THEN WordNN(15, 0, 0)
      ELSE IF j % 2 = 1 /\ j < 2 * k + 1
      THEN WordNNN(2, kChip8ProgramStartAddress + 2 * j + 2)
      ELSE Word(0, 0, 14, 14) ]

\* Nests of one call fewer than stack_ has slots, and of as many.
NestRoms ==
  { Rom(NestChain(k), 2 * k + 1 + PastEnd) : k \in {StackSize - 1, StackSize} }


Programs ==
  RegisterRoms \cup DrawRoms \cup CallRoms \cup LoadRoms \cup TimerRoms
    \cup BcdRoms \cup SpillRoms \cup ClearRoms \cup NestRoms

\* Every ROM that is a single instruction word.
WordPrograms == { Rom(<< w >>, 1) : w \in 0 .. 65535 }

(***************************************************************************)
(* Init: the state the constructor leaves                                  *)
(***************************************************************************)
\* memory_{} after LoadFontSet();
FontMemory == LoadFontSet(Zeroed)

InitFrom(programs) ==
  /\ \E p \in programs :
       LET load == LoadProgramText(FontMemory, p.rom) IN
       /\ memory_ = load.mem
       /\ loc_ = CASE load.outcome = "ok"     -> "head"
                   [] load.outcome = "thrown" -> "load_failed"
                   [] OTHER                   -> "undefined"
       /\ rom_size_ = Len(p.rom.bytes)
       /\ max_steps_ = p.steps
  /\ variable_registers_ = [r \in Registers |-> 0]
  /\ stack_ = [i \in 0 .. (StackSize - 1) |-> 0]
  /\ stack_pointer_ = 0
  /\ program_counter_ = kChip8ProgramStartAddress
  /\ screen_matrix_ = ClearedMatrix(Zeroed)
  /\ index_register_ = 0
  /\ delay_timer_ = 0
  /\ sound_timer_ = 0
  /\ closed_ = FALSE
  /\ instr_ = NoInstruction
  /\ steps_ = 0
  /\ ticks_ = 0
  /\ draw_calls_ = 1
  /\ shown_ = ClearedMatrix(Zeroed)
  /\ plays_ = 0
  /\ prev_ = NoSnapshot
  /\ prev2_ = NoSnapshot

Init == InitFrom(Programs)

InitWord == InitFrom(WordPrograms)

(***************************************************************************)
(* The run loop: Emulator::StartExecutionLoop                              *)
(***************************************************************************)
machine ==
  << variable_registers_, stack_, stack_pointer_, memory_, program_counter_,
     screen_matrix_, index_register_, delay_timer_, sound_timer_ >>
bookkeeping == << rom_size_, max_steps_ >>
sinks == << draw_calls_, shown_, plays_ >>
history == << prev_, prev2_ >>

\* A faulty loop head that does not ask the window whether it is open; C18
\* has to reject it.
LoopHeadUnpolled ==
  /\ loc_ = "head"
  /\ steps_ < max_steps_
  /\ loc_' = "fetch"
  /\ steps_' = steps_ + 1
  /\ UNCHANGED << machine, closed_, instr_, bookkeeping, ticks_, sinks, history >>

\* while (screen_.IsOpen()): the window is open and no Closed event is polled.
LoopHeadOpen ==
  /\ loc_ = "head"
  /\ ~closed_
  /\ steps_ < max_steps_
  /\ loc_' = "fetch"
  /\ steps_' = steps_ + 1
  /\ UNCHANGED << machine, closed_, instr_, bookkeeping, ticks_, sinks, history >>

\* while (screen_.IsOpen()): the window is closed, or a Closed event is polled.
LoopHeadClosed ==
  /\ loc_ = "head"
  /\ closed_' = TRUE
  /\ loc_' = "returned"
  /\ UNCHANGED << machine, instr_, bookkeeping, steps_, ticks_, sinks, history >>

\* raw{ Fetch() }; if (!raw.has_value()) return; instr{ Decode(*raw) };
FetchDecode ==
  /\ loc_ = "fetch"
  /\ LET raw == Fetch(memory_, program_counter_) IN
     IF ~raw.in_bounds
     THEN /\ loc_' = "undefined"
          /\ UNCHANGED << program_counter_, instr_ >>
     ELSE IF ~raw.has_value
     THEN /\ loc_' = "returned"
          /\ UNCHANGED << program_counter_, instr_ >>
     ELSE /\ loc_' = "execute"
          /\ program_counter_' = raw.pc
          /\ instr_' = Decode(raw.first, raw.sec)
  /\ UNCHANGED << variable_registers_, stack_, stack_pointer_, memory_,
                  screen_matrix_, index_register_, delay_timer_, sound_timer_,
                  closed_, bookkeeping, steps_, ticks_, sinks, history >>

\* A faulty loop that ticks the timers twice in an iteration; C17 has to
\* reject it.
TickTwice ==
  /\ loc_ = "tick"
  /\ LET t1 == OnTimersTick(delay_timer_, sound_timer_)
         t  == OnTimersTick(t1.delay_timer, t1.sound_timer)
     IN
     /\ delay_timer_' = t.delay_timer
     /\ sound_timer_' = t.sound_timer
     /\ plays_' = plays_ + (IF t1.play THEN 1 ELSE 0) + (IF t.play THEN 1 ELSE 0)
  /\ ticks_' = ticks_ + 2
  /\ loc_' = "head"
  /\ UNCHANGED << variable_registers_, stack_, stack_pointer_, memory_,
                  program_counter_, screen_matrix_, index_register_, closed_,
                  instr_, bookkeeping, steps_, draw_calls_, shown_, history >>

\* OnTimersTick();
Tick ==
  /\ loc_ = "tick"
  /\ LET t == OnTimersTick(delay_timer_, sound_timer_) IN
     /\ delay_timer_' = t.delay_timer
     /\ sound_timer_' = t.sound_timer
     /\ plays_' = IF t.play THEN plays_ + 1 ELSE plays_
  /\ ticks_' = ticks_ + 1
  /\ loc_' = "head"
  /\ UNCHANGED << variable_registers_, stack_, stack_pointer_, memory_,
                  program_counter_, screen_matrix_, index_register_, closed_,
                  instr_, bookkeeping, steps_, draw_calls_, shown_, history >>

(***************************************************************************)
(* Execute(instr): one action per handler                                  *)
(***************************************************************************)
Executing(handler) == loc_ = "execute" /\ Execute(instr_) = handler

\* Execute ends at l, having started from the state Snapshot records.
Finish(l) == loc_' = l /\ prev_' = Snapshot /\ prev2_' = prev_

rest == << closed_, instr_, bookkeeping, steps_, ticks_ >>

\* A faulty screen_.Draw that is handed the framebuffer as it is before the
\* handler has plotted into it; C25 has to reject it.
ScreenDrawBeforePlot(matrix) ==
  IF closed_
  THEN UNCHANGED << draw_calls_, shown_ >>
  ELSE draw_calls_' = draw_calls_ + 1 /\ shown_' = screen_matrix_


\* screen_.Draw(matrix): nothing is drawn once the window is closed.
ScreenDraw(matrix) ==
  IF closed_
  THEN UNCHANGED << draw_calls_, shown_ >>
  ELSE draw_calls_' = draw_calls_ + 1 /\ shown_' = matrix

OnlyRegisters(V) ==
  /\ variable_registers_' = V
  /\ Finish("tick")
  /\ UNCHANGED << stack_, stack_pointer_, memory_, program_counter_,
                  screen_matrix_, index_register_, delay_timer_, sound_timer_,
                  rest, sinks >>

OnlyProgramCounter(pc) ==
  /\ program_counter_' = pc
  /\ Finish("tick")
  /\ UNCHANGED << variable_registers_, stack_, stack_pointer_, memory_,
                  screen_matrix_, index_register_, delay_timer_, sound_timer_,
                  rest, sinks >>

OnlyIndexRegister(I) ==
  /\ index_register_' = I
  /\ Finish("tick")
  /\ UNCHANGED << variable_registers_, stack_, stack_pointer_, memory_,
                  program_counter_, screen_matrix_, delay_timer_, sound_timer_,
                  rest, sinks >>

Undefined ==
  /\ Finish("undefined")
  /\ UNCHANGED << machine, rest, sinks >>

ExecReturn ==
  /\ Executing("return")
  /\ Finish("tick")
  /\ UNCHANGED << machine, rest, sinks >>

\* A faulty Execute whose exception is swallowed, so that the loop goes on to
\* the timers; C27 has to reject it.
ExecThrowSwallowed ==
  /\ Executing("throw")
  /\ Finish("tick")
  /\ UNCHANGED << machine, rest, sinks >>


ExecThrow ==
  /\ Executing("throw")
  /\ Finish("thrown")
  /\ UNCHANGED << machine, rest, sinks >>

ExecClearScreen ==
  /\ Executing("ClearScreen")
  /\ screen_matrix_' = ClearedMatrix(screen_matrix_)
  /\ ScreenDraw(screen_matrix_')
  /\ Finish("tick")
  /\ UNCHANGED << variable_registers_, stack_, stack_pointer_, memory_,
                  program_counter_, index_register_, delay_timer_, sound_timer_,
                  rest, plays_ >>

ExecReturnFromSubroutine ==
  /\ Executing("ReturnFromSubroutine")
  /\ LET r == ReturnFromSubroutine(stack_, stack_pointer_) IN
     IF r.in_bounds
     THEN /\ stack_pointer_' = r.sp
          /\ program_counter_' = r.pc
          /\ Finish("tick")
          /\ UNCHANGED << variable_registers_, stack_, memory_, screen_matrix_,
                          index_register_, delay_timer_, sound_timer_, rest, sinks >>
     ELSE Undefined

ExecJump ==
  /\ Executing("Jump")
  /\ OnlyProgramCounter(Jump(ArgNNN))

ExecCallSubroutine ==
  /\ Executing("CallSubroutine")
  /\ LET r == CallSubroutine(stack_, stack_pointer_, program_counter_, ArgNNN) IN
     IF r.in_bounds
     THEN /\ stack_pointer_' = r.sp
          /\ stack_' = r.stack
          /\ program_counter_' = r.pc
          /\ Finish("tick")
          /\ UNCHANGED << variable_registers_, memory_, screen_matrix_,
                          index_register_, delay_timer_, sound_timer_, rest, sinks >>
     ELSE Undefined

ExecSkipInstructionIfVxEqual ==
  /\ Executing("SkipInstructionIfVxEqual")
  /\ OnlyProgramCounter(
       SkipInstructionIfVxEqual(variable_registers_, program_counter_, ArgX, ArgNN))

ExecSkipInstructionIfVxNotEqual ==
  /\ Executing("SkipInstructionIfVxNotEqual")
  /\ OnlyProgramCounter(
       SkipInstructionIfVxNotEqual(variable_registers_, program_counter_, ArgX, ArgNN))

ExecSkipInstructionIfVxEqualVy ==
  /\ Executing("SkipInstructionIfVxEqualVy")
  /\ OnlyProgramCounter(
       SkipInstructionIfVxEqualVy(variable_registers_, program_counter_, ArgX, ArgY))

ExecSkipInstructionIfVxNotEqualVy ==
  /\ Executing("SkipInstructionIfVxNotEqualVy")
  /\ OnlyProgramCounter(
       SkipInstructionIfVxNotEqualVy(variable_registers_, program_counter_, ArgX, ArgY))

ExecSetRegisterVx ==
  /\ Executing("SetRegisterVx")
  /\ OnlyRegisters(SetRegisterVx(variable_registers_, ArgX, ArgNN))

ExecAddToRegisterVx ==
  /\ Executing("AddToRegisterVx")
  /\ OnlyRegisters(AddToRegisterVx(variable_registers_, ArgX, ArgNN))

ExecSetVy2Vx ==
  /\ Executing("SetVy2Vx")
  /\ OnlyRegisters(SetVy2Vx(variable_registers_, ArgX, ArgY))

ExecVxBinaryOrVy ==
  /\ Executing("VxBinaryOrVy")
  /\ OnlyRegisters(VxBinaryOrVy(variable_registers_, ArgX, ArgY))

ExecVxBinaryAndVy ==
  /\ Executing("VxBinaryAndVy")
  /\ OnlyRegisters(VxBinaryAndVy(variable_registers_, ArgX, ArgY))

ExecVxBinaryXorVy ==
  /\ Executing("VxBinaryXorVy")
  /\ OnlyRegisters(VxBinaryXorVy(variable_registers_, ArgX, ArgY))

ExecAddVy2Vx ==
  /\ Executing("AddVy2Vx")
  /\ OnlyRegisters(AddVy2Vx(variable_registers_, ArgX, ArgY))

ExecVxSubtractVy ==
  /\ Executing("VxSubtractVy")
  /\ OnlyRegisters(VxSubtractVy(variable_registers_, ArgX, ArgY))

ExecShiftVxRight ==
  /\ Executing("ShiftVxRight")
  /\ OnlyRegisters(ShiftVxRight(variable_registers_, ArgX))

ExecVySubtractVx ==
  /\ Executing("VySubtractVx")
  /\ OnlyRegisters(VySubtractVx(variable_registers_, ArgX, ArgY))

ExecShiftVxLeft ==
  /\ Executing("ShiftVxLeft")
  /\ OnlyRegisters(ShiftVxLeft(variable_registers_, ArgX))

ExecSetIndexRegister ==
  /\ Executing("SetIndexRegister")
  /\ OnlyIndexRegister(SetIndexRegister(ArgNNN))

ExecJumpWithOffset ==
  /\ Executing("JumpWithOffset")
  /\ OnlyProgramCounter(JumpWithOffset(variable_registers_, ArgNNN))

ExecVxBinaryAndRandom ==
  /\ Executing("VxBinaryAndRandom")
  /\ \E rnd \in 0 .. MaxRand :
       OnlyRegisters(VxBinaryAndRandom(variable_registers_, ArgX, ArgNN, rnd))

ExecDisplay ==
  /\ Executing("Display")
  /\ LET d == Display(variable_registers_, memory_, index_register_,
                      screen_matrix_, ArgX, ArgY, ArgN) IN
     IF d.in_bounds
     THEN /\ variable_registers_' = d.V
          /\ screen_matrix_' = d.screen
          /\ ScreenDraw(d.screen)
          /\ Finish("tick")
          /\ UNCHANGED << stack_, stack_pointer_, memory_, program_counter_,
                          index_register_, delay_timer_, sound_timer_, rest, plays_ >>
     ELSE Undefined

\* held is the host key that is down (sf.Unknown: none); ndebug is whether
\* the build compiles assert() away.
ExecSkipInstructionIfPressed ==
  /\ Executing("SkipInstructionIfPressed")
  /\ \E held \in HostKeys \cup {sf.Unknown}, ndebug \in BOOLEAN :
       LET k == IsKeyPressed(variable_registers_[ArgX], held) IN
       IF k.asserted /\ ~ndebug
       THEN Finish("aborted") /\ UNCHANGED << machine, rest, sinks >>
       ELSE OnlyProgramCounter(IF k.pressed THEN program_counter_ + 2
                                            ELSE program_counter_)

ExecSkipInstructionIfNotPressed ==
  /\ Executing("SkipInstructionIfNotPressed")
  /\ \E held \in HostKeys \cup {sf.Unknown}, ndebug \in BOOLEAN :
       LET k == IsKeyPressed(variable_registers_[ArgX], held) IN
       IF k.asserted /\ ~ndebug
       THEN Finish("aborted") /\ UNCHANGED << machine, rest, sinks >>
       ELSE OnlyProgramCounter(IF ~k.pressed THEN program_counter_ + 2
                                             ELSE program_counter_)

ExecAddVx2IndexRegister ==
  /\ Executing("AddVx2IndexRegister")
  /\ OnlyIndexRegister(AddVx2IndexRegister(variable_registers_, index_register_, ArgX))

\* Emulator::WaitForKeyPress calls Keyboard::WaitForKeyPress, which returns
\* in the action WaitKey.
ExecWaitForKeyPress ==
  /\ Executing("WaitForKeyPress")
  /\ Finish("waitkey")
  /\ UNCHANGED << machine, rest, sinks >>

\* The events the window can deliver to waitEvent ("none": waitEvent failed).
Events ==
  { [type |-> "Closed", code |-> sf.Unknown],
    [type |-> "Other",  code |-> sf.Unknown],
    [type |-> "none",   code |-> sf.Unknown] }
  \cup { [type |-> "KeyPressed", code |-> k] : k \in HostKeys }

\* The window's WaitKeyPress on the next event.
WaitKeyPress(closed, event) ==
  IF closed
  THEN [closed |-> TRUE, has_value |-> FALSE, key |-> sf.Unknown]
  ELSE IF event.type = "Closed"
  THEN [closed |-> TRUE, has_value |-> FALSE, key |-> sf.Unknown]
  ELSE IF event.type = "KeyPressed"
  THEN [closed |-> FALSE, has_value |-> TRUE, key |-> event.code]
  ELSE [closed |-> FALSE, has_value |-> TRUE, key |-> sf.Unknown]

\* One round of the while (true) of Keyboard::WaitForKeyPress, and, when it
\* returns, the rest of Emulator::WaitForKeyPress.
WaitKey ==
  /\ loc_ = "waitkey"
  /\ \E event \in Events :
       LET key == WaitKeyPress(closed_, event)
           chip8_key == ConvertQwertyToChip8(key.key)
       IN
       /\ closed_' = key.closed
       /\ IF ~key.has_value
          THEN loc_' = "tick" /\ UNCHANGED variable_registers_
          ELSE IF chip8_key.has_value
          THEN /\ loc_' = "tick"
               /\ variable_registers_' =
                    [variable_registers_ EXCEPT ![ArgX] = chip8_key.value]
          ELSE loc_' = "waitkey" /\ UNCHANGED variable_registers_
  /\ UNCHANGED << stack_, stack_pointer_, memory_, program_counter_,
                  screen_matrix_, index_register_, delay_timer_, sound_timer_,
                  instr_, bookkeeping, steps_, ticks_, sinks, history >>

ExecSetIndexRegisterForFont ==
  /\ Executing("SetIndexRegisterForFont")
  /\ OnlyIndexRegister(SetIndexRegisterForFont(variable_registers_, ArgX))

ExecHexInVxToDecimal ==
  /\ Executing("HexInVxToDecimal")
  /\ LET r == HexInVxToDecimal(memory_, variable_registers_, index_register_, ArgX) IN
     IF r.in_bounds
     THEN /\ memory_' = r.mem
          /\ Finish("tick")
          /\ UNCHANGED << variable_registers_, stack_, stack_pointer_,
                          program_counter_, screen_matrix_, index_register_,
                          delay_timer_, sound_timer_, rest, sinks >>
     ELSE Undefined

ExecStoreRegistersInMemory ==
  /\ Executing("StoreRegistersInMemory")
  /\ LET r == StoreRegistersInMemory(memory_, variable_registers_, index_register_, ArgX) IN
     IF r.in_bounds
     THEN /\ memory_' = r.mem
          /\ Finish("tick")
          /\ UNCHANGED << variable_registers_, stack_, stack_pointer_,
                          program_counter_, screen_matrix_, index_register_,
                          delay_timer_, sound_timer_, rest, sinks >>
     ELSE Undefined

ExecLoadRegistersFromMemory ==
  /\ Executing("LoadRegistersFromMemory")
  /\ LET r == LoadRegistersFromMemory(memory_, variable_registers_, index_register_, ArgX) IN
     IF r.in_bounds
     THEN OnlyRegisters(r.V)
     ELSE Undefined

ExecSetDelayTimer2Vx ==
  /\ Executing("SetDelayTimer2Vx")
  /\ OnlyRegisters(SetDelayTimer2Vx(variable_registers_, ArgX, delay_timer_))

ExecSetDelayTimer ==
  /\ Executing("SetDelayTimer")
  /\ delay_timer_' = variable_registers_[ArgX]
  /\ Finish("tick")
  /\ UNCHANGED << variable_registers_, stack_, stack_pointer_, memory_,
                  program_counter_, screen_matrix_, index_register_,
                  sound_timer_, rest, sinks >>

ExecSetSoundTimer ==
  /\ Executing("SetSoundTimer")
  /\ sound_timer_' = variable_registers_[ArgX]
  /\ Finish("tick")
  /\ UNCHANGED << variable_registers_, stack_, stack_pointer_, memory_,
                  program_counter_, screen_matrix_, index_register_,
                  delay_timer_, rest, sinks >>

Next ==
  \/ LoopHeadOpen
  \/ LoopHeadClosed
  \/ FetchDecode
  \/ Tick
  \/ WaitKey
  \/ ExecReturn
  \/ ExecThrow
  \/ ExecClearScreen
  \/ ExecReturnFromSubroutine
  \/ ExecJump
  \/ ExecCallSubroutine
  \/ ExecSkipInstructionIfVxEqual
  \/ ExecSkipInstructionIfVxNotEqual
  \/ ExecSkipInstructionIfVxEqualVy
  \/ ExecSetRegisterVx
  \/ ExecAddToRegisterVx
  \/ ExecSetVy2Vx
  \/ ExecVxBinaryOrVy
  \/ ExecVxBinaryAndVy
  \/ ExecVxBinaryXorVy
  \/ ExecAddVy2Vx
  \/ ExecVxSubtractVy
  \/ ExecShiftVxRight
  \/ ExecVySubtractVx
  \/ ExecShiftVxLeft
  \/ ExecSkipInstructionIfVxNotEqualVy
  \/ ExecSetIndexRegister
  \/ ExecJumpWithOffset
  \/ ExecVxBinaryAndRandom
  \/ ExecDisplay
  \/ ExecSkipInstructionIfPressed
  \/ ExecSkipInstructionIfNotPressed
  \/ ExecAddVx2IndexRegister
  \/ ExecWaitForKeyPress
  \/ ExecSetIndexRegisterForFont
  \/ ExecHexInVxToDecimal
  \/ ExecStoreRegistersInMemory
  \/ ExecLoadRegistersFromMemory
  \/ ExecSetDelayTimer2Vx
  \/ ExecSetDelayTimer
  \/ ExecSetSoundTimer

Spec == Init /\ [][Next]_vars

SpecWord == InitWord /\ [][Next]_vars


(***************************************************************************)
(* Properties.  They are stated over the state an Execute ends in and the  *)
(* state it started from (prev_), in arithmetic rather than with the       *)
(* handlers' own operators.                                                *)
(***************************************************************************)
Op1(w)  == w \div 4096
OpX(w)  == (w \div 256) % 16
OpY(w)  == (w \div 16) % 16
OpN(w)  == w % 16
OpNN(w) == w % 256

\* Execute has just come back from the instruction word prev_.raw.
Executed == loc_ = "tick" /\ prev_.raw # -1

\* Execute has just come back from 8xyN with N = n.
Executed8(n) == Executed /\ Op1(prev_.raw) = 8 /\ OpN(prev_.raw) = n

\* The opcodes the instruction table documents.
Documented(w) ==
  CASE Op1(w) = 0         -> w \in {224, 238}
    [] Op1(w) \in {5, 9}  -> OpN(w) = 0
    [] Op1(w) = 8         -> OpN(w) \in (0 .. 7) \cup {14}
    [] Op1(w) = 14        -> OpNN(w) \in {158, 161}
    [] Op1(w) = 15        -> OpNN(w) \in {7, 10, 21, 24, 30, 41, 51, 85, 101}
    [] OTHER              -> TRUE

\* The first address after the loaded program.
ProgramEnd == kChip8ProgramStartAddress + rom_size_

\* C1: every instruction word that is not a documented opcode makes Execute
\* report a decode failure that stops the run loop; none is executed as an
\* operation or passed over as a no-op.
C1_UndocumentedWordStopsLoop ==
  (prev_.raw # -1 /\ ~Documented(prev_.raw)) => loc_ = "thrown"

\* C2: once the program counter is past the last byte of the loaded program
\* nothing more is executed: no instruction fetched from ProgramEnd or beyond
\* reaches Execute.
C2_NothingExecutedPastProgramEnd ==
  loc_ = "execute" => program_counter_ - 2 < ProgramEnd

\* C3: after 8xy5 and 8xy7 with x # F, Vx is the difference modulo 256 and
\* VF is 1 iff the minuend was greater than or equal to the subtrahend.
C3_SubtractFlagIsNoBorrow ==
  /\ (Executed8(5) /\ OpX(prev_.raw) # VF) =>
       LET vx == prev_.V[OpX(prev_.raw)]
           vy == prev_.V[OpY(prev_.raw)]
       IN  /\ variable_registers_[OpX(prev_.raw)] = (vx - vy) % 256
           /\ variable_registers_[VF] = (IF vx >= vy THEN 1 ELSE 0)
  /\ (Executed8(7) /\ OpX(prev_.raw) # VF) =>
       LET vx == prev_.V[OpX(prev_.raw)]
           vy == prev_.V[OpY(prev_.raw)]
       IN  /\ variable_registers_[OpX(prev_.raw)] = (vy - vx) % 256
           /\ variable_registers_[VF] = (IF vy >= vx THEN 1 ELSE 0)

\* C4: after 8xyE with x # F, Vx is twice its old value modulo 256 and VF is
\* bit 7 of the old value.
C4_ShiftLeftFlagIsBit7 ==
  (Executed8(14) /\ OpX(prev_.raw) # VF) =>
    LET v == prev_.V[OpX(prev_.raw)]
    IN  /\ variable_registers_[OpX(prev_.raw)] = (2 * v) % 256
        /\ variable_registers_[VF] = v \div 128

\* C5: after 8xy4 with x # F, Vx is the sum modulo 256 and VF is 1 if the
\* sum exceeded 255, else 0.
C5_AddSetsSumAndCarry ==
  (Executed8(4) /\ OpX(prev_.raw) # VF) =>
    LET sum == prev_.V[OpX(prev_.raw)] + prev_.V[OpY(prev_.raw)]
    IN  /\ variable_registers_[OpX(prev_.raw)] = sum % 256
        /\ variable_registers_[VF] = (IF sum > 255 THEN 1 ELSE 0)

\* 8xy4 with x # F has just added two registers whose sum exceeds 255.
C5_AddOverflowed ==
  /\ Executed8(4)
  /\ OpX(prev_.raw) # VF
  /\ prev_.V[OpX(prev_.raw)] + prev_.V[OpY(prev_.raw)] > 255

\* C6: 7xnn sets Vx to (Vx + nn) mod 256 and changes no other register, VF
\* included even when the addition wraps; with nn = 0 no register changes.
C6_AddImmediateTouchesOnlyVx ==
  (Executed /\ Op1(prev_.raw) = 7) =>
    /\ variable_registers_[OpX(prev_.raw)] =
         (prev_.V[OpX(prev_.raw)] + OpNN(prev_.raw)) % 256
    /\ \A r \in Registers \ {OpX(prev_.raw)} :
         variable_registers_[r] = prev_.V[r]
    /\ OpNN(prev_.raw) = 0 => variable_registers_ = prev_.V

\* 7xnn with x # F has just wrapped Vx past 255.
C6_AddImmediateWrapped ==
  /\ Executed
  /\ Op1(prev_.raw) = 7
  /\ OpX(prev_.raw) # VF
  /\ prev_.V[OpX(prev_.raw)] + OpNN(prev_.raw) > 255

\* C7: Decode is defined on every pair of bytes, takes the first byte as the
\* high byte, and its four nibbles are each in 0 .. 15 and rebuild raw:
\* raw = (nibble1 << 12) | (nibble2 << 8) | (nibble3 << 4) | nibble4.
C7_DecodeNibblesRebuildRaw ==
  loc_ = "execute" =>
    /\ instr_.raw = Mem(memory_, program_counter_ - 2) * 256
                    + Mem(memory_, program_counter_ - 1)
    /\ instr_.first_nibble \in 0 .. 15
    /\ instr_.second_nibble \in 0 .. 15
    /\ instr_.third_nibble \in 0 .. 15
    /\ instr_.fourth_nibble \in 0 .. 15
    /\ instr_.raw = instr_.first_nibble * 4096 + instr_.second_nibble * 256
                    + instr_.third_nibble * 16 + instr_.fourth_nibble

\* The word 0x1234, whose nibbles are all different, has been decoded.
C7_DecodedDistinctNibbles ==
  /\ loc_ = "execute"
  /\ instr_.raw = 4660
  /\ << instr_.first_nibble, instr_.second_nibble,
        instr_.third_nibble, instr_.fourth_nibble >> = << 1, 2, 3, 4 >>


Rows    == 0 .. (kChip8ScreenHeight - 1)
Columns == 0 .. (kChip8ScreenWidth - 1)

\* Bit dx, counted from the most significant one, of row dy of the n-row
\* sprite at address I is set.
SpriteBit(mem, I, n, dy, dx) ==
  /\ dy \in 0 .. (n - 1)
  /\ dx \in 0 .. 7
  /\ (Mem(mem, I + dy) \div (2 ^ (7 - dx))) % 2 = 1

\* The sprite the last Dxyn drew has a set bit on cell (r, c) of the screen,
\* when anchored at column Vx mod 64 and row Vy mod 32 and not wrapped.
Lit(r, c) ==
  SpriteBit(memory_, prev_.I, OpN(prev_.raw),
            r - (prev_.V[OpY(prev_.raw)] % kChip8ScreenHeight),
            c - (prev_.V[OpX(prev_.raw)] % kChip8ScreenWidth))

\* Execute has just come back from Dxyn.
ExecutedDraw == Executed /\ Op1(prev_.raw) = 13

\* Execute has just come back from the second of two Dxyn in succession that
\* are the same word, with the same I and the same anchor.
ExecutedSameDrawTwice ==
  /\ ExecutedDraw
  /\ prev2_.raw = prev_.raw
  /\ prev2_.at + 2 = prev_.at
  /\ prev2_.I = prev_.I
  /\ prev2_.V[OpX(prev_.raw)] % kChip8ScreenWidth
       = prev_.V[OpX(prev_.raw)] % kChip8ScreenWidth
  /\ prev2_.V[OpY(prev_.raw)] % kChip8ScreenHeight
       = prev_.V[OpY(prev_.raw)] % kChip8ScreenHeight

\* C8: Dxyn anchors the sprite at column Vx mod 64 and row Vy mod 32, flips
\* exactly the cells of the screen under a set sprite bit (most significant
\* bit first, one byte per row from I on), nothing past the right or bottom
\* edge coming back on the other side, and leaves VF = 1 iff a lit cell was
\* turned off, else 0.
C8_DrawXorsClippedSprite ==
  ExecutedDraw =>
    /\ \A r \in Rows, c \in Columns :
         Pixel(screen_matrix_, r, c) =
           (Pixel(prev_.screen, r, c) + (IF Lit(r, c) THEN 1 ELSE 0)) % 2
    /\ variable_registers_[VF] =
         (IF \E r \in Rows, c \in Columns :
               Lit(r, c) /\ Pixel(prev_.screen, r, c) = 1
          THEN 1 ELSE 0)

\* A Dxyn whose anchor column was wrapped and whose sprite was cut at the
\* right edge has turned a lit cell off.
C8_DrewWrappedClippedCollided ==
  /\ ExecutedDraw
  /\ prev_.V[OpX(prev_.raw)] >= kChip8ScreenWidth
  /\ (prev_.V[OpX(prev_.raw)] % kChip8ScreenWidth) + 7 >= kChip8ScreenWidth
  /\ OpN(prev_.raw) > 0
  /\ variable_registers_[VF] = 1

\* C9: the second of two identical Dxyn in succession (x, y # F, same Vx, Vy,
\* I and sprite bytes) leaves every cell of the screen as it was before the
\* first.
C9_SecondDrawRestoresScreen ==
  ( /\ ExecutedSameDrawTwice
    /\ OpX(prev_.raw) # VF
    /\ OpY(prev_.raw) # VF
    /\ prev2_.V[OpX(prev_.raw)] = prev_.V[OpX(prev_.raw)]
    /\ prev2_.V[OpY(prev_.raw)] = prev_.V[OpY(prev_.raw)] ) =>
    \A r \in Rows, c \in Columns :
      Pixel(screen_matrix_, r, c) = Pixel(prev2_.screen, r, c)

\* The same Dxyn (x, y # F) has run twice on a screen that was not empty, and
\* the first of the two turned lit cells off.
C9_DrewTwiceOverBackground ==
  /\ ExecutedSameDrawTwice
  /\ OpX(prev_.raw) # VF
  /\ OpY(prev_.raw) # VF
  /\ \E r \in Rows, c \in Columns : Pixel(prev2_.screen, r, c) = 1
  /\ prev_.V[VF] = 1
  /\ prev_.screen # prev2_.screen

\* No cell of the screen was lit before the first of the last two
\* instructions.
WasEmptyBeforeFirst ==
  \A r \in Rows, c \in Columns : Pixel(prev2_.screen, r, c) = 0

\* C10, as stated: after the same sprite is drawn twice in succession at the
\* same place on a screen with no other pixel set, VF is 0.
C10_SecondDrawLeavesVFZero ==
  (ExecutedSameDrawTwice /\ WasEmptyBeforeFirst) =>
    variable_registers_[VF] = 0

\* C10, amended: after the same sprite is drawn twice in succession at the
\* same place on a screen with no pixel set, VF was 0 after the first draw,
\* and after the second VF is 1 iff the sprite has a set bit inside the
\* screen.
C10_SecondDrawCollidesWithFirst ==
  (ExecutedSameDrawTwice /\ WasEmptyBeforeFirst) =>
    /\ prev_.V[VF] = 0
    /\ variable_registers_[VF] =
         (IF \E r \in Rows, c \in Columns : Lit(r, c) THEN 1 ELSE 0)

\* The same sprite has been drawn twice on an empty screen and the second
\* draw has erased what the first one lit.
C10_DrewTwiceOnEmptyScreen ==
  /\ ExecutedSameDrawTwice
  /\ WasEmptyBeforeFirst
  /\ prev_.screen # prev2_.screen
  /\ variable_registers_[VF] = 1


\* The last instruction handed to Execute was 2nnn, and no other has been
\* since.
LeftCall ==
  /\ loc_ \in {"tick", "undefined"}
  /\ prev_.raw # -1
  /\ Op1(prev_.raw) = 2

\* Execute has just come back from 00EE, run right after the 2nnn that called
\* it.
ReturnedRightAfterCall ==
  /\ Executed
  /\ prev_.raw = 238
  /\ prev2_.raw # -1
  /\ Op1(prev2_.raw) = 2
  /\ prev_.at = prev2_.raw % 4096

\* C11: at every stack depth below 16, 2nnn at address a completes, and 00EE
\* right after it leaves the program counter at a + 2 and the stack depth at
\* its value before the call.
C11_CallReturnRoundTrip ==
  /\ (LeftCall /\ prev_.sp < StackSize) =>
       /\ stack_pointer_ = prev_.sp + 1
       /\ stack_[stack_pointer_] = prev_.at + 2
  /\ ReturnedRightAfterCall =>
       /\ program_counter_ = prev2_.at + 2
       /\ stack_pointer_ = prev2_.sp


\* C12: 2nnn with 16 return addresses on the stack and 00EE with none each
\* stop the run loop with a bounds failure; no call or return touches
\* anything outside the 16 slots of stack_, and the stack pointer never
\* wraps around.
C12_StackFaultStopsLoop ==
  /\ stack_pointer_ \in 0 .. StackSize
  /\ (prev_.raw = 238 /\ prev_.sp = 0) => loc_ = "thrown"
  /\ (LeftCall /\ stack_pointer_ = prev_.sp) => loc_ = "thrown"


\* The number of bytes the instruction word w reads or writes from I on, with
\* the registers V: the sprite rows of Dxyn that are on the screen, the three
\* digits of Fx33, V0 .. Vx of Fx55 and Fx65; 0 for every other word.
IndexedBytes(w, V) ==
  CASE Op1(w) = 13 ->
         LET below == kChip8ScreenHeight - (V[OpY(w)] % kChip8ScreenHeight)
         IN  IF OpN(w) < below THEN OpN(w) ELSE below
    [] Op1(w) = 15 /\ OpNN(w) = 51       -> 3
    [] Op1(w) = 15 /\ OpNN(w) \in {85, 101} -> OpX(w) + 1
    [] OTHER -> 0

\* The last instruction handed to Execute accesses memory through I at
\* address 4096 or beyond.
IndexedPastMemory ==
  /\ prev_.raw # -1
  /\ IndexedBytes(prev_.raw, prev_.V) > 0
  /\ prev_.I + IndexedBytes(prev_.raw, prev_.V) - 1 >= kChip8MemorySize

\* C13: Dxyn, Fx33, Fx55 and Fx65 access memory through I only at addresses
\* 0 .. 4095; when I plus the offset is 4096 or more the instruction is a
\* bounds failure that stops the run loop.
C13_IndexedAccessFaultStopsLoop ==
  IndexedPastMemory => loc_ = "thrown"


\* C14: construction fails for every ROM larger than the 3584 bytes between
\* the program start address and the end of memory, so that no byte of a ROM
\* is copied to address 4096 or beyond.
C14_OversizedRomFailsConstruction ==
  rom_size_ > kChip8MemorySize - kChip8ProgramStartAddress =>
    loc_ = "load_failed"


\* This step is OnTimersTick.
TickStep == loc_ = "tick" /\ loc_' = "head"

\* This step is Execute coming back from FxNN with NN = nn.
ExecuteStepF(nn) ==
  /\ loc_ = "execute"
  /\ loc_' = "tick"
  /\ Op1(instr_.raw) = 15
  /\ OpNN(instr_.raw) = nn

\* C15: a tick that starts with the sound timer above 0 decrements it and
\* triggers the tone device exactly once, the tick from 1 to 0 included; a
\* tick that starts with it at 0 triggers nothing.
C15_TonePlayedOnEveryNonzeroTick ==
  [][ TickStep =>
        IF sound_timer_ > 0
        THEN sound_timer_' = sound_timer_ - 1 /\ plays_' = plays_ + 1
        ELSE sound_timer_' = 0 /\ plays_' = plays_ ]_vars

\* C16: a tick lowers each timer by exactly 1 when it is not 0 and leaves it
\* at 0 when it is, whatever the other timer holds; the timers stay in
\* 0 .. 255; Fx15 writes only the delay timer, Fx18 only the sound timer and
\* Fx07 neither.
C16_TimersCountDownIndependently ==
  [][ /\ TickStep =>
           /\ delay_timer_' = (IF delay_timer_ > 0 THEN delay_timer_ - 1 ELSE 0)
           /\ sound_timer_' = (IF sound_timer_ > 0 THEN sound_timer_ - 1 ELSE 0)
           /\ delay_timer_' \in 0 .. 255
           /\ sound_timer_' \in 0 .. 255
      /\ ExecuteStepF(21) =>
           /\ delay_timer_' = variable_registers_[OpX(instr_.raw)]
           /\ sound_timer_' = sound_timer_
      /\ ExecuteStepF(24) =>
           /\ sound_timer_' = variable_registers_[OpX(instr_.raw)]
           /\ delay_timer_' = delay_timer_
      /\ ExecuteStepF(7) =>
           /\ delay_timer_' = delay_timer_
           /\ sound_timer_' = sound_timer_ ]_vars

\* The tick after Fx18 has lowered a sound timer set to 255 while the delay
\* timer, already at 0, stayed there.
C16_TickedSoundWithDelayAtZero ==
  /\ loc_ = "head"
  /\ prev_.raw # -1
  /\ Op1(prev_.raw) = 15
  /\ OpNN(prev_.raw) = 24
  /\ prev_.V[OpX(prev_.raw)] = 255
  /\ prev_.dt = 0
  /\ sound_timer_ = 254
  /\ delay_timer_ = 0


\* C17: an iteration of the run loop is Fetch and Decode, then Execute, then
\* exactly one timer tick, in that order; the ticks counted are the
\* instructions whose Execute has come back, and an instruction whose Execute
\* failed gets no tick and ends the run.
C17_OneTickAfterEachExecute ==
  [][ /\ loc_ = "head"    => loc_' \in {"fetch", "returned"}
      /\ loc_ = "fetch"   => loc_' \in {"execute", "returned", "undefined"}
      /\ loc_ = "execute" =>
           loc_' \in {"tick", "waitkey", "thrown", "aborted", "undefined"}
      /\ loc_ = "waitkey" => loc_' \in {"waitkey", "tick"}
      /\ loc_ = "tick"    => loc_' = "head"
      /\ loc_ \notin {"head", "fetch", "execute", "waitkey", "tick"} => FALSE
      /\ TickStep => ticks_' = ticks_ + 1
      /\ ticks_' # ticks_ => TickStep
      /\ (loc_ = "execute" /\ Execute(instr_) = "throw") => loc_' = "thrown"
      /\ IF loc_' \in {"head", "returned"}
         THEN ticks_' = steps_'
         ELSE ticks_' = steps_' - 1 ]_vars

\* The third instruction of a run has failed in Execute after two
\* instructions that each got their tick.
C17_ThirdExecuteFailedUnticked ==
  /\ loc_ = "thrown"
  /\ steps_ = 3
  /\ ticks_ = 2


\* C18: the window's open status is asked at the head of every iteration,
\* before the fetch; once the window has reported closed it stays closed, no
\* instruction is fetched or executed any more, the loop ends at its head,
\* and nothing happens after it has ended.
C18_ClosedWindowStopsLoop ==
  [][ /\ loc_' = "fetch" => (loc_ = "head" /\ ~closed_ /\ ~closed_')
      /\ closed_ => closed_'
      /\ closed_ => loc_' \notin {"fetch", "execute", "waitkey"}
      /\ closed_ => (steps_' = steps_ /\ instr_' = instr_
                     /\ program_counter_' = program_counter_)
      /\ (loc_ = "head" /\ closed_) => loc_' = "returned"
      /\ loc_' = "returned" => closed_'
      /\ loc_ = "returned" => FALSE ]_vars

\* The window has been closed while Fx0A was waiting for a key; the loop has
\* the tick of this iteration left before its head.
C18_ClosedWhileWaiting ==
  /\ loc_ = "tick"
  /\ closed_
  /\ prev_.raw # -1
  /\ Op1(prev_.raw) = 15
  /\ OpNN(prev_.raw) = 10


\* The host keys of the CHIP-8 keypad: 1234, QWER, ASDF, ZXCV.
KeypadKeys ==
  { sf.Num1, sf.Num2, sf.Num3, sf.Num4, sf.Q, sf.W, sf.E, sf.R,
    sf.A, sf.S, sf.D, sf.F, sf.Z, sf.X, sf.C, sf.V }

\* An event that is neither the window being closed nor a keypad key leaves
\* Keyboard::WaitForKeyPress waiting.
OtherEventsKeepWaiting ==
  \A e \in Events :
    (e.type \in {"Other", "none"}
       \/ (e.type = "KeyPressed" /\ e.code \notin KeypadKeys)) =>
      LET key == WaitKeyPress(FALSE, e)
      IN  /\ key.has_value
          /\ ~key.closed
          /\ ~ConvertQwertyToChip8(key.key).has_value

\* C19: while Fx0A waits no instruction executes; a key ends the wait with
\* that key, a value in 0 .. 15, in Vx and nothing else changed, and the run
\* goes on with the next instruction; the window being closed ends it with Vx
\* unchanged, and the loop then stops at its head without another
\* instruction; no other event ends the wait.
C19_KeyWaitBlocksUntilAnswered ==
  [][ /\ (loc_ = "execute" /\ Execute(instr_) = "WaitForKeyPress") =>
           (loc_' = "waitkey" /\ UNCHANGED << machine, closed_, steps_, ticks_ >>)
      /\ loc_ = "waitkey" =>
           /\ loc_' \in {"waitkey", "tick"}
           /\ UNCHANGED << program_counter_, instr_, steps_, ticks_, stack_,
                           stack_pointer_, memory_, index_register_,
                           screen_matrix_ >>
           /\ OtherEventsKeepWaiting
           /\ loc_' = "waitkey" => UNCHANGED variable_registers_
           /\ closed_' => (loc_' = "tick" /\ UNCHANGED variable_registers_)
           /\ (loc_' = "tick" /\ ~closed_') =>
                \E k \in 0 .. 15 :
                  variable_registers_' =
                    [variable_registers_ EXCEPT ![OpX(instr_.raw)] = k]
      /\ (closed_ /\ loc_ = "tick") => loc_' = "head"
      /\ (closed_ /\ loc_ = "head") => loc_' = "returned" ]_vars

\* A key has answered Fx0A and changed Vx to a value in 0 .. 15.
C19_KeyAnswered ==
  /\ loc_ = "tick"
  /\ ~closed_
  /\ prev_.raw # -1
  /\ Op1(prev_.raw) = 15
  /\ OpNN(prev_.raw) = 10
  /\ variable_registers_[OpX(prev_.raw)] # prev_.V[OpX(prev_.raw)]
  /\ variable_registers_[OpX(prev_.raw)] \in 0 .. 15


\* C20: Cxnn leaves in Vx a random byte masked with nn, every byte being
\* possible: when Cxnn is about to execute, r & nn is a possible value of Vx
\* for every r in 0 .. 255 (nn itself among them), and every possible value of
\* Vx has no bit outside nn.
C20_RandomCoversEveryMaskedByte ==
  (loc_ = "execute" /\ Op1(instr_.raw) = 12) =>
    /\ \A r \in 0 .. 255 :
         ENABLED (Next /\ variable_registers_'[OpX(instr_.raw)]
                            = BitAnd(r, OpNN(instr_.raw)))
    /\ ~ ENABLED (Next /\ BitAnd(variable_registers_'[OpX(instr_.raw)],
                                 255 - OpNN(instr_.raw)) # 0)


Addresses == 0 .. (kChip8MemorySize - 1)

\* This step is Execute coming back from the handler named.
ExecuteStep(handler) ==
  loc_ = "execute" /\ loc_' = "tick" /\ Execute(instr_) = handler

\* C21: Fx33 writes the hundreds, tens and ones digits of Vx to memory[I],
\* memory[I + 1] and memory[I + 2], each digit in 0 .. 9 and the three making
\* up Vx again, and changes no register and no other memory cell.
C21_BcdWritesThreeDigits ==
  [][ ExecuteStepF(51) =>
        LET v == variable_registers_[OpX(instr_.raw)]
            I == index_register_
        IN  /\ Mem(memory_', I) = v \div 100
            /\ Mem(memory_', I + 1) = (v \div 10) % 10
            /\ Mem(memory_', I + 2) = v % 10
            /\ \A i \in 0 .. 2 : Mem(memory_', I + i) \in 0 .. 9
            /\ 100 * Mem(memory_', I) + 10 * Mem(memory_', I + 1)
                 + Mem(memory_', I + 2) = v
            /\ \A a \in Addresses \ {I, I + 1, I + 2} :
                 Mem(memory_', a) = Mem(memory_, a)
            /\ UNCHANGED << variable_registers_, index_register_ >> ]_vars

\* Fx33 has run with Vx = 156 and left 1, 5, 6 from I on.
C21_BcdOf156 ==
  /\ Executed
  /\ Op1(prev_.raw) = 15
  /\ OpNN(prev_.raw) = 51
  /\ prev_.V[OpX(prev_.raw)] = 156
  /\ Mem(memory_, prev_.I) = 1
  /\ Mem(memory_, prev_.I + 1) = 5
  /\ Mem(memory_, prev_.I + 2) = 6


\* The program in memory is SpillChain(x, nnn) for some nnn, untouched.
RunsSpillChain(x) ==
  \E nnn \in SpillAddresses(x) :
    LET bytes == WordsToBytes(SpillChain(x, nnn))
    IN  /\ rom_size_ = Len(bytes)
        /\ \A k \in 1 .. Len(bytes) :
             Mem(memory_, kChip8ProgramStartAddress + k - 1) = bytes[k]

\* C22: Fx55 copies exactly V0 .. Vx to memory[I .. I + x]; Fx65 copies them
\* back; neither changes I or a register above Vx; and Fx55, V0 .. Vx cleared,
\* Fx65 gives V0 .. Vx the values they had before.
C22_SpillReloadRoundTrip ==
  [][ /\ ExecuteStepF(85) =>
           LET x == OpX(instr_.raw)
               I == index_register_
           IN  /\ \A i \in 0 .. x : Mem(memory_', I + i) = variable_registers_[i]
               /\ \A a \in Addresses \ (I .. (I + x)) :
                    Mem(memory_', a) = Mem(memory_, a)
               /\ UNCHANGED << variable_registers_, index_register_ >>
      /\ ExecuteStepF(101) =>
           LET x == OpX(instr_.raw)
               I == index_register_
           IN  /\ \A i \in 0 .. x : variable_registers_'[i] = Mem(memory_, I + i)
               /\ \A r \in Registers \ (0 .. x) :
                    variable_registers_'[r] = variable_registers_[r]
               /\ UNCHANGED << memory_, index_register_ >>
               /\ RunsSpillChain(x) =>
                    /\ \A i \in 0 .. x : variable_registers_[i] = 0
                    /\ \A r \in Registers :
                         variable_registers_'[r] = SpillValue(r) ]_vars

\* FF55, sixteen registers cleared, FF65: all sixteen registers are back.
C22_ReloadedAllSixteen ==
  /\ Executed
  /\ prev_.raw = WordNN(15, 15, 101)
  /\ \A r \in Registers : prev_.V[r] = 0
  /\ \A r \in Registers : variable_registers_[r] = SpillValue(r)


\* C23: after Fx29 with a hex digit d in Vx, I is the address of the glyph of
\* d in the font table loaded at address 0: memory[I .. I + 4] are the five
\* bytes of that glyph.
C23_FontAddressOfDigit ==
  (Executed /\ Op1(prev_.raw) = 15 /\ OpNN(prev_.raw) = 41
     /\ prev_.V[OpX(prev_.raw)] \in 0 .. 15) =>
    \A j \in 0 .. 4 :
      Mem(memory_, index_register_ + j)
        = kChip8FontSet[5 * prev_.V[OpX(prev_.raw)] + j + 1]


\* C24: every cell of the screen matrix is 0 or 1; a cell changes only in the
\* Execute of 00E0, which leaves all of them 0, or of Dxyn, which flips the
\* cells it changes; no other instruction and no tick changes a cell.
C24_OnlyClearAndDrawChangeScreen ==
  [][ /\ \A r \in Rows, c \in Columns : Pixel(screen_matrix_', r, c) \in {0, 1}
      /\ screen_matrix_' # screen_matrix_ =>
           /\ loc_ = "execute"
           /\ instr_.raw = 224 \/ Op1(instr_.raw) = 13
      /\ (loc_ = "execute" /\ loc_' = "tick" /\ instr_.raw = 224) =>
           \A r \in Rows, c \in Columns : Pixel(screen_matrix_', r, c) = 0 ]_vars


\* C25: the Execute of a Dxyn hands the framebuffer to the display exactly
\* once, and what it hands over is the framebuffer with the whole sprite
\* plotted, for n = 0 and for clipped rows too; whatever a step hands to the
\* display is the framebuffer that step leaves.
C25_DrawShowsFinishedScreenOnce ==
  [][ /\ ExecuteStep("Display") =>
           /\ draw_calls_' = draw_calls_ + 1
           /\ shown_' = Display(variable_registers_, memory_, index_register_,
                                screen_matrix_, OpX(instr_.raw),
                                OpY(instr_.raw), OpN(instr_.raw)).screen
           /\ shown_' = screen_matrix_'
      /\ << draw_calls_, shown_ >>' # << draw_calls_, shown_ >> =>
           /\ draw_calls_' = draw_calls_ + 1
           /\ shown_' = screen_matrix_' ]_vars

\* Two Dxyn in succession were shown, the last with rows clipped at the bottom
\* edge, over the construction's and the background's notification.
C25_ShownClippedDraw ==
  /\ ExecutedDraw
  /\ prev2_.raw = prev_.raw
  /\ OpN(prev_.raw) > 0
  /\ (prev_.V[OpY(prev_.raw)] % kChip8ScreenHeight) + OpN(prev_.raw)
       > kChip8ScreenHeight
  /\ draw_calls_ = 4
  /\ shown_ = screen_matrix_
  /\ shown_ # prev_.screen

\* A Dxyn with n = 0 was shown.
C25_ShownEmptyDraw ==
  /\ ExecutedDraw
  /\ OpN(prev_.raw) = 0
  /\ draw_calls_ = 4
  /\ shown_ = screen_matrix_


\* The condition under which the skip opcode w skips, on registers V.
SkipCondition(w, V) ==
  CASE Op1(w) = 3 -> V[OpX(w)] = OpNN(w)
    [] Op1(w) = 4 -> V[OpX(w)] # OpNN(w)
    [] Op1(w) = 5 -> V[OpX(w)] = V[OpY(w)]
    [] Op1(w) = 9 -> V[OpX(w)] # V[OpY(w)]

IsSkip(w) ==
  \/ Op1(w) \in {3, 4}
  \/ Op1(w) \in {5, 9} /\ OpN(w) = 0

\* C26: 3xnn, 4xnn, 5xy0 and 9xy0 fetched from address a leave the program
\* counter at a + 4 when their condition holds and at a + 2 when it does not,
\* and change no register, memory cell, timer, stack slot or the index
\* register.
C26_SkipMovesOnlyProgramCounter ==
  [][ (loc_ = "execute" /\ IsSkip(instr_.raw)) =>
        LET a == program_counter_ - 2 IN
          /\ Mem(memory_, a) * 256 + Mem(memory_, a + 1) = instr_.raw
          /\ loc_' = "tick"
          /\ program_counter_' =
               IF SkipCondition(instr_.raw, variable_registers_)
               THEN a + 4 ELSE a + 2
          /\ UNCHANGED << variable_registers_, memory_, index_register_,
                          delay_timer_, sound_timer_, stack_, stack_pointer_,
                          screen_matrix_ >> ]_vars

\* 9xy0 skipped over registers that differ, and 3xnn did not skip.
C26_SkippedOnUnequalRegisters ==
  /\ Executed
  /\ Op1(prev_.raw) = 9
  /\ OpN(prev_.raw) = 0
  /\ prev_.V[OpX(prev_.raw)] # prev_.V[OpY(prev_.raw)]
  /\ program_counter_ = prev_.at + 4


\* C27: when Execute throws on an unknown opcode the loop stops: the Fetch
\* before it moved the program counter on by 2 and changed nothing else, the
\* throwing Execute changes no register, no memory cell, no framebuffer cell,
\* no stack slot, no timer and not the index register, and nothing runs after
\* it.
C27_ThrowLeavesStateAndStops ==
  [][ /\ (loc_ = "fetch" /\ loc_' = "execute") =>
           /\ program_counter_' = program_counter_ + 2
           /\ UNCHANGED << variable_registers_, index_register_, memory_,
                           screen_matrix_, stack_, stack_pointer_,
                           delay_timer_, sound_timer_ >>
      /\ (loc_ = "execute" /\ Execute(instr_) = "throw") =>
           /\ loc_' = "thrown"
           /\ UNCHANGED << machine, sinks, ticks_ >>
      /\ loc_ # "thrown" ]_vars

\* 8xy8 threw with registers set by the two instructions before it.
C27_ThrewOnUnknownOpcode ==
  /\ loc_ = "thrown"
  /\ Op1(prev_.raw) = 8
  /\ OpN(prev_.raw) = 8
  /\ prev_.V[OpX(prev_.raw)] # 0
  /\ variable_registers_ = prev_.V
  /\ program_counter_ = prev_.at + 2
  /\ delay_timer_ = prev_.dt


\* C28: after 8xy4, 8xy5, 8xy6, 8xy7 and 8xyE, for every x and y, x = F
\* included, VF is the flag, 0 or 1: the carry after 8xy4 and the bit shifted
\* out after 8xy6.
C28_FlagIsLastWriteToVF ==
  /\ (Executed /\ Op1(prev_.raw) = 8 /\ OpN(prev_.raw) \in {4, 5, 6, 7, 14}) =>
       variable_registers_[VF] \in {0, 1}
  /\ Executed8(4) =>
       variable_registers_[VF] =
         (IF prev_.V[OpX(prev_.raw)] + prev_.V[OpY(prev_.raw)] > 255
          THEN 1 ELSE 0)
  /\ Executed8(6) =>
       variable_registers_[VF] = prev_.V[OpX(prev_.raw)] % 2


\* C29: from an empty stack, each of 16 nested 2nnn is accepted and its return
\* address a + 2 is kept in one of the 16 slots of stack_, one slot further
\* than the call before it; each 00EE that follows goes back to the address
\* pushed last and frees its slot.
C29_SixteenNestedCallsReturnInOrder ==
  /\ (LeftCall /\ prev_.sp < StackSize) =>
       /\ stack_pointer_ = prev_.sp + 1
       /\ \E s \in 0 .. (StackSize - 1) : stack_[s] = prev_.at + 2
  /\ (Executed /\ prev_.raw = 238 /\ prev_.sp \in 1 .. StackSize) =>
       /\ stack_pointer_ = prev_.sp - 1
       /\ program_counter_ = stack_[prev_.sp]


\* C30: the keypad mapping is one to one between the CHIP-8 keys 0 .. 15 and
\* the sixteen host keys: converting a CHIP-8 key to its host key and back
\* gives the key again, Fx0A can store every key 0 .. 15, and the key Fx0A
\* stores for a host key is a key that Ex9E finds pressed while that host key
\* is down.
C30_KeypadIsBijection ==
  loc_ = "waitkey" =>
    /\ \A k \in 0 .. 15 :
         /\ ~ConvertChip8ToQwerty(k).asserted
         /\ ConvertChip8ToQwerty(k).key \in KeypadKeys
         /\ ConvertQwertyToChip8(ConvertChip8ToQwerty(k).key)
              = [has_value |-> TRUE, value |-> k]
         /\ ENABLED (Next /\ loc_' = "tick" /\ ~closed_'
                       /\ variable_registers_'[OpX(instr_.raw)] = k)
    /\ \A h \in KeypadKeys :
         /\ ConvertQwertyToChip8(h).has_value
         /\ IsKeyPressed(ConvertQwertyToChip8(h).value, h).pressed


\* C31: Ex9E and ExA1 ask for the state of a key in 0 .. 15 only, whatever
\* the registers hold, and the assert(false) of ConvertChip8ToQwerty is never
\* reached.
C31_KeyQueryIsFourBit ==
  /\ loc_ # "aborted"
  /\ (loc_ = "execute"
        /\ Execute(instr_) \in {"SkipInstructionIfPressed",
                                "SkipInstructionIfNotPressed"}) =>
       /\ variable_registers_[OpX(instr_.raw)] \in 0 .. 15
       /\ ~ConvertChip8ToQwerty(variable_registers_[OpX(instr_.raw)]).asserted

\* C32: whenever Fetch is about to run, the program counter is in 0 .. 4094,
\* so that both bytes of the instruction are read from inside memory_.
C32_FetchInsideMemory ==
  loc_ = "fetch" =>
    /\ program_counter_ \in 0 .. (kChip8MemorySize - 2)
    /\ Fetch(memory_, program_counter_).in_bounds

====
